---- MODULE Spec2Model ----
(***************************************************************************)
(* legitify-mcp (src/src/server.js): the attestation request queue and the *)
(* receipt log, two JSONL files shared by every server process, and the    *)
(* six tool handlers that read and append to them.                         *)
(*                                                                         *)
(* A JavaScript value that may be undefined is a sequence: <<>> is         *)
(* undefined and <<v>> is the value v.  A line of a log file is what       *)
(* JSON.parse makes of it: [t |-> "obj", v |-> record], [t |-> "null"],    *)
(* [t |-> "num"], or [t |-> "garbage"] for text that does not parse.       *)
(***************************************************************************)
EXTENDS Integers, Sequences, FiniteSets, TLC

\* ---------------------------------------------------------------- bounds
\* The number of lines the two log files hold together, at most.
MaxLines == 3

\* The server processes sharing the two files.
Procs == {"p1", "p2"}
\* The values Date.now() is read as, and those
\* Math.random().toString(16).slice(2) is drawn from.
Times == {1000}
RandVals == {"a3f", "c07"}

VARIABLES
    queue,  \* QUEUE_PATH: the lines of attestation-requests.jsonl
    resp,   \* RESP_PATH: the lines of attestation-responses.jsonl
    pc,     \* per process: where its review_request handler stands
    loc,    \* per process: the locals of its review_request handler
    ret,    \* the result a handler has just returned, until it is sent
    seen    \* history: every decision a call has reported, per request id

vars == <<queue, resp, pc, loc, ret, seen>>

\* ------------------------------------------------------- JavaScript values
Undef == <<>>
Some(v) == <<v>>
Obj(rec) == [t |-> "obj", v |-> rec]

\* o?.k for a nested object o that may itself be undefined.
Field(o, k) == IF o = Undef \/ k \notin DOMAIN o[1] THEN Undef ELSE Some(o[1][k])
\* x.k for a parsed line x that is not null (null.k throws a TypeError);
\* a property of a number is undefined.
Prop(x, k) == IF x.t = "obj" THEN Field(Some(x.v), k) ELSE Undef
\* x?.k for a parsed line x: null?.k is undefined too.
OptProp(x, k) == IF x.t = "null" THEN Undef ELSE Prop(x, k)
\* a || b for a string a: undefined and '' are falsy.
OrElse(oa, b) == IF oa = Undef \/ oa = Some("") THEN b ELSE oa[1]
\* a || b for an array a: only undefined is falsy.
OrDefault(oa, b) == IF oa = Undef THEN b ELSE oa[1]

\* JSON.stringify of an object literal: a key whose value is undefined is
\* dropped, the others are written with their values.
JsonStringify(o) == [k \in {j \in DOMAIN o : o[j] # Undef} |-> o[k][1]]

\* jsonlAppend writing the file anew (writeFileSync for appendFileSync): the
\* line replaces what the file held.
jsonlAppend_Overwrite(file, obj) == <<Obj(obj)>>

\* jsonlAppend: one line holding JSON.stringify(obj).
jsonlAppend(file, obj) == Append(file, Obj(obj))

RECURSIVE SelectParsed(_)
SelectParsed(lines) ==
    IF lines = <<>> THEN <<>>
    ELSE IF Head(lines).t = "garbage" THEN SelectParsed(Tail(lines))
    ELSE <<Head(lines)>> \o SelectParsed(Tail(lines))

\* readJsonl keeping the line when JSON.parse throws instead of dropping it.
readJsonl_KeepUnparsed(file) == file

\* readJsonl: every line JSON.parse accepts, in file order; a line it throws
\* on is dropped.
readJsonl(file) == SelectParsed(file)

\* Array.prototype.slice(start) and reverse().
Slice(s, start) ==
    LET n == Len(s)
        from == IF start < 0 THEN (IF n + start > 0 THEN n + start ELSE 0)
                ELSE (IF start < n THEN start ELSE n)
    IN  SubSeq(s, from + 1, n)

Reverse(s) == [i \in 1..Len(s) |-> s[Len(s) + 1 - i]]

\* ------------------------------------------------------------------ ids
NumStr(n) == ToString(n)
RequestId(t, r) == "attreq_" \o NumStr(t) \o "_" \o r
AttestationId(t, r) == "att_" \o NumStr(t) \o "_" \o r

\* --------------------------------------------------- AttestationRequestSchema
Kinds == {"contract", "filing", "compliance_action", "financial_instruction",
          "deploy", "access"}
RiskLevels == {"low", "medium", "high"}
RequestedActions == {"approve", "deny", "needs_info"}
\* z.string().url(): the strings of the explored inputs that parse as a URL.
WellFormedUrls == {"https://example.com/pr/123"}

\* ZodViolations without the min(1) of title and summary: an empty string
\* passes.
ZodViolations_EmptyAllowed(a) ==
    {k \in {"kind"} : k \in DOMAIN a /\ a[k] \notin Kinds}
    \cup {k \in {"title", "summary"} : k \notin DOMAIN a}
    \cup {k \in {"risk_level"} : k \in DOMAIN a /\ a[k] \notin RiskLevels}
    \cup {k \in {"links"} : k \in DOMAIN a
                            /\ \E i \in 1..Len(a[k]) : a[k][i] \notin WellFormedUrls}
    \cup {k \in {"requested_action"} : k \in DOMAIN a /\ a[k] \notin RequestedActions}
    \cup {k \in {"spend_usd"} : k \in DOMAIN a /\ a[k] < 0}

\* The fields safeParse reports: a required field missing or empty, a value
\* outside its enum, a link that is no URL, a negative spend.
ZodViolations(a) ==
    {k \in {"kind"} : k \in DOMAIN a /\ a[k] \notin Kinds}
    \cup {k \in {"title", "summary"} : k \notin DOMAIN a \/ a[k] = ""}
    \cup {k \in {"risk_level"} : k \in DOMAIN a /\ a[k] \notin RiskLevels}
    \cup {k \in {"links"} : k \in DOMAIN a
                            /\ \E i \in 1..Len(a[k]) : a[k][i] \notin WellFormedUrls}
    \cup {k \in {"requested_action"} : k \in DOMAIN a /\ a[k] \notin RequestedActions}
    \cup {k \in {"spend_usd"} : k \in DOMAIN a /\ a[k] < 0}

\* parsed.data: the defaults filled in; spend_usd stays absent when not given.
ZodData(a) ==
    [k \in {"kind", "title", "summary", "risk_level", "links", "evidence",
            "requested_action", "currency"} \cup ({"spend_usd"} \cap DOMAIN a) |->
        IF k \in DOMAIN a THEN a[k]
        ELSE CASE k = "kind" -> "compliance_action"
               [] k = "risk_level" -> "medium"
               [] k = "requested_action" -> "approve"
               [] k = "currency" -> "USD"
               [] OTHER -> <<>>]

\* ------------------------------------------------------------ the lookups
Max(S) == CHOOSE m \in S : \A n \in S : n <= m
Min(S) == CHOOSE m \in S : \A n \in S : m <= n

\* findLatestReceipt comparing the receipt's own attestation_id with the id.
findLatestReceipt_WrongKey(file, attestationRequestId) ==
    LET items == readJsonl(file)
        hits == {i \in 1..Len(items) :
                    OptProp(items[i], "attestation_id") = Some(attestationRequestId)}
    IN  IF attestationRequestId = "" \/ hits = {} THEN Undef
        ELSE Some(items[Max(hits)])

\* findLatestReceipt scanning from the start of the log: the first match.
findLatestReceipt_FirstMatch(file, attestationRequestId) ==
    LET items == readJsonl(file)
        hits == {i \in 1..Len(items) :
                    OptProp(items[i], "attestation_request_id")
                        = Some(attestationRequestId)}
    IN  IF attestationRequestId = "" \/ hits = {} THEN Undef
        ELSE Some(items[Min(hits)])

\* findLatestReceipt: the last parsed line whose attestation_request_id is
\* the id; none for an empty id.
findLatestReceipt(file, attestationRequestId) ==
    LET items == readJsonl(file)
        hits == {i \in 1..Len(items) :
                    OptProp(items[i], "attestation_request_id")
                        = Some(attestationRequestId)}
    IN  IF attestationRequestId = "" \/ hits = {} THEN Undef
        ELSE Some(items[Max(hits)])

\* findPendingById without the comparison of ids: the last line of the queue.
findPendingById_AnyRecord(file, attestation_request_id) ==
    LET items == readJsonl(file)
    IN  IF items = <<>> THEN Undef ELSE Some(items[Len(items)])

\* findPendingById scanning from the start of the queue: the first match.
findPendingById_FirstMatch(file, attestation_request_id) ==
    LET items == readJsonl(file)
        hits == {i \in 1..Len(items) :
                    OptProp(items[i], "id") = Some(attestation_request_id)}
    IN  IF hits = {} THEN Undef ELSE Some(items[Min(hits)])

\* findPendingById: the last parsed line of the queue whose id is the id.
findPendingById(file, attestation_request_id) ==
    LET items == readJsonl(file)
        hits == {i \in 1..Len(items) :
                    OptProp(items[i], "id") = Some(attestation_request_id)}
    IN  IF hits = {} THEN Undef ELSE Some(items[Max(hits)])

\* The filter of listPending cross-checking the receipt log: a request with
\* a receipt is no longer pending.
IsPendingItem_Undecided(x) ==
    /\ OrElse(Prop(x, "status"), "pending") = "pending"
    /\ \A i \in 1..Len(resp) :
        OptProp(resp[i], "attestation_request_id") # Prop(x, "id")

\* x => (x.status || 'pending') === 'pending'
IsPendingItem(x) == OrElse(Prop(x, "status"), "pending") = "pending"

\* listPending without reverse(): the oldest of the slice first.
listPending_Unreversed(file, limit) ==
    LET items == readJsonl(file)
        pending == SelectSeq(items, IsPendingItem)
    IN  Slice(pending, 0 - limit)

\* listPending(limit): the parsed lines whose status is pending (or absent),
\* the last `limit` of them, most recent first.
listPending(file, limit) ==
    LET items == readJsonl(file)
        pending == SelectSeq(items, IsPendingItem)
    IN  Reverse(Slice(pending, 0 - limit))

\* ------------------------------------------------------------- responses
Fault == [fault |-> "TypeError"]
IsFault(out) == "fault" \in DOMAIN out

\* args?.attestation_request_id || '' as a string.
IdOf(args) == OrElse(Field(Some(args), "attestation_request_id"), "")

MissingId ==
    [ok |-> FALSE, status |-> "needs_info", error |-> "missing attestation_request_id"]
NotFound ==
    [ok |-> FALSE, status |-> "needs_info", error |-> "request not found in queue"]
InvalidReview ==
    [ok |-> FALSE, status |-> "needs_info",
     error |-> "missing/invalid attestation_request_id or decision"]

\* legitify.get_attestation_status
GetStatusOut(file, args) ==
    LET id == IdOf(args)
        receipt == findLatestReceipt(file, id)
    IN  IF id = "" THEN MissingId
        ELSE IF receipt = Undef
        THEN [ok |-> TRUE, status |-> "pending", attestation_request_id |-> id]
        ELSE [ok |-> TRUE,
              status |-> OrElse(Prop(receipt[1], "decision"), "approved"),
              attestation_request_id |-> id,
              receipt |-> receipt[1].v]

\* A number in halves, n/d with d in {1, 2}: a limit may be a non-integer.
Num(n) == [n |-> n, d |-> 1]
Less(a, b) == a.n * b.d < b.n * a.d
\* ToIntegerOrInfinity: the fraction is cut off, towards zero.
Trunc(a) == IF a.n >= 0 THEN a.n \div a.d ELSE 0 - ((0 - a.n) \div a.d)

DefaultLimit == 25
MinLimit == 1
MaxLimit == 100

\* Number(args?.limit || 25), then Math.max(1, Math.min(100, limit)): an
\* absent limit and 0 are falsy and become 25.
EffectiveLimit(args) ==
    LET given == Field(Some(args), "limit")
        limit == IF given = Undef \/ given[1].n = 0 THEN Num(DefaultLimit) ELSE given[1]
        capped == IF Less(Num(MaxLimit), limit) THEN Num(MaxLimit) ELSE limit
    IN  IF Less(capped, Num(MinLimit)) THEN Num(MinLimit) ELSE capped

\* The summary of one listed item: undefined fields drop out of the JSON.
PendingSummary(x) ==
    JsonStringify(
        [id |-> Prop(x, "id"),
         createdAt |-> Prop(x, "createdAt"),
         kind |-> Field(Prop(x, "request"), "kind"),
         risk_level |-> Field(Prop(x, "request"), "risk_level"),
         title |-> Field(Prop(x, "request"), "title"),
         summary |-> Field(Prop(x, "request"), "summary"),
         links |-> Some(OrDefault(Field(Prop(x, "request"), "links"), <<>>)),
         spend_usd |-> Field(Prop(x, "request"), "spend_usd"),
         currency |-> Some(OrElse(Field(Prop(x, "request"), "currency"), "USD"))])

\* legitify.list_pending_requests; the filter's x.status throws on a line
\* that parsed to null.
ListPendingOut(file, args) ==
    LET items == readJsonl(file)
    IN  IF \E i \in 1..Len(items) : items[i].t = "null" THEN Fault
        ELSE LET found == listPending(file, Trunc(EffectiveLimit(args)))
             IN  [ok |-> TRUE,
                  pendingCount |-> Len(found),
                  pending |-> [i \in 1..Len(found) |-> PendingSummary(found[i])]]

\* legitify.get_pending_request_details
DetailsOut(file, args) ==
    LET id == IdOf(args)
        req == findPendingById(file, id)
    IN  IF id = "" THEN MissingId
        ELSE IF req = Undef THEN NotFound
        ELSE [ok |-> TRUE,
              status |-> OrElse(Prop(req[1], "status"), "pending"),
              attestation_request_id |-> id,
              request |-> req[1].v]

\* legitify.get_policy
PolicyOut ==
    [ok |-> TRUE, policy_version |-> "v1",
     default_monthly_approval_cap_usd |-> 2000,
     decisions |-> <<"approved", "denied", "needs_info">>]

\* String.prototype.toLowerCase on the decisions explored.
ToLowerCase(s) ==
    CASE s = "APPROVED" -> "approved"
      [] s = "Denied" -> "denied"
      [] OTHER -> s

Decisions == {"approved", "denied", "needs_info"}

\* String(args?.decision || '').toLowerCase()
DecisionOf(args) == ToLowerCase(OrElse(Field(Some(args), "decision"), ""))

\* The receipt without the defaults of reviewed_by and scope: String() of an
\* absent argument taken as empty.
Receipt_WithoutDefaults(args, req, timestamp, attestation_id) ==
    JsonStringify(
        [ok |-> Some(TRUE),
         attestation_id |-> Some(attestation_id),
         attestation_request_id |-> Some(IdOf(args)),
         reviewed_by |-> Some(OrElse(Field(Some(args), "reviewed_by"), "")),
         timestamp |-> Some(timestamp),
         scope |-> Some(OrElse(Field(Some(args), "scope"), "")),
         decision |-> Some(DecisionOf(args)),
         policy_version |-> Some("v1"),
         notes |-> Some(OrElse(Field(Some(args), "notes"), "")),
         request |-> Some(JsonStringify(
            [kind |-> Field(Prop(req, "request"), "kind"),
             title |-> Field(Prop(req, "request"), "title"),
             summary |-> Field(Prop(req, "request"), "summary"),
             risk_level |-> Field(Prop(req, "request"), "risk_level"),
             links |-> Some(OrDefault(Field(Prop(req, "request"), "links"), <<>>)),
             evidence |-> Some(OrDefault(Field(Prop(req, "request"), "evidence"), <<>>)),
             spend_usd |-> Field(Prop(req, "request"), "spend_usd"),
             currency |-> Some(OrElse(Field(Prop(req, "request"), "currency"), "USD"))]))])

\* The receipt review_request writes for request line req.
Receipt(args, req, timestamp, attestation_id) ==
    JsonStringify(
        [ok |-> Some(TRUE),
         attestation_id |-> Some(attestation_id),
         attestation_request_id |-> Some(IdOf(args)),
         reviewed_by |-> Some(OrElse(Field(Some(args), "reviewed_by"), "neely")),
         timestamp |-> Some(timestamp),
         scope |-> Some(OrElse(Field(Some(args), "scope"), "human_attestation_v1")),
         decision |-> Some(DecisionOf(args)),
         policy_version |-> Some("v1"),
         notes |-> Some(OrElse(Field(Some(args), "notes"), "")),
         request |-> Some(JsonStringify(
            [kind |-> Field(Prop(req, "request"), "kind"),
             title |-> Field(Prop(req, "request"), "title"),
             summary |-> Field(Prop(req, "request"), "summary"),
             risk_level |-> Field(Prop(req, "request"), "risk_level"),
             links |-> Some(OrDefault(Field(Prop(req, "request"), "links"), <<>>)),
             evidence |-> Some(OrDefault(Field(Prop(req, "request"), "evidence"), <<>>)),
             spend_usd |-> Field(Prop(req, "request"), "spend_usd"),
             currency |-> Some(OrElse(Field(Prop(req, "request"), "currency"), "USD"))]))])

\* ------------------------------------------------------------ the inputs
UnknownId == "attreq_9_zzz"
\* The ids a caller may pass: an id no request has and the ids in the queue.
KnownIds ==
    {queue[i].v.id : i \in {j \in 1..Len(queue) :
                               queue[j].t = "obj" /\ "id" \in DOMAIN queue[j].v}}
\* The id argument: absent, empty, or one of those ids.
IdArgs == {<<>>} \cup {[attestation_request_id |-> i] : i \in {"", UnknownId} \cup KnownIds}

MinimalRequest == [title |-> "Rotate key", summary |-> "Quarterly rotation"]
FullRequest ==
    [kind |-> "deploy", title |-> "Deploy v1.2.3", summary |-> "Ship release",
     risk_level |-> "medium", links |-> <<"https://example.com/pr/123">>,
     evidence |-> <<"staging green">>, spend_usd |-> 0, currency |-> "EUR"]
SubmitArgs ==
    {MinimalRequest, FullRequest,
     [title |-> "", summary |-> "x"],
     [summary |-> "s", kind |-> "purchase", risk_level |-> "extreme"],
     [title |-> "t", summary |-> "s", links |-> <<"not a url">>, spend_usd |-> 0 - 1]}

LimitArgs ==
    {<<>>}
    \cup {[limit |-> Num(k)] : k \in {0 - 3, 0, 1, 2, 101}}
    \cup {[limit |-> [n |-> 3, d |-> 2]]}

\* What a reviewer passes besides the id: a decision, spelled as the schema
\* lists it or not, with or without scope, notes and reviewed_by.
ReviewChoices ==
    {[decision |-> "approved", scope |-> "deploy_release",
      notes |-> "staging verified", reviewed_by |-> "alice"],
     [decision |-> "denied"],
     [decision |-> "needs_info"],
     [decision |-> "APPROVED"],
     [decision |-> "maybe"]}
ReviewArgs ==
    {<<>>, [attestation_request_id |-> "", decision |-> "denied"],
     [attestation_request_id |-> UnknownId]}
    \cup {[attestation_request_id |-> i] @@ c :
            i \in {UnknownId} \cup KnownIds, c \in ReviewChoices}

\* ------------------------------------------------------------- the state
NoRet == [op |-> "none"]
Response(op, args, out) == [op |-> op, args |-> args, out |-> out]

\* The decisions a response reports, added to the history.
Reported(out) ==
    IF ~IsFault(out) /\ out.ok /\ "receipt" \in DOMAIN out
    THEN {[id |-> out.attestation_request_id, status |-> out.status,
           receipt |-> out.receipt]}
    ELSE {}

Lines == Len(queue) + Len(resp)

Init ==
    /\ queue = <<>>
    /\ resp = <<>>
    /\ pc = [p \in Procs |-> "idle"]
    /\ loc = [p \in Procs |-> <<>>]
    /\ ret = NoRet
    /\ seen = {}

\* The handler's return value goes out to the client: the server is ready
\* for its next step.
Respond ==
    /\ ret # NoRet
    /\ ret' = NoRet
    /\ UNCHANGED <<queue, resp, pc, loc, seen>>

\* Process p is between calls and the last result has gone out.
Ready(p) == ret = NoRet /\ pc[p] = "idle"

\* legitify.get_policy
GetPolicy(p) ==
    /\ Ready(p)
    /\ ret' = Response("get_policy", <<>>, PolicyOut)
    /\ UNCHANGED <<queue, resp, pc, loc, seen>>

\* legitify.get_attestation_status
GetStatus(p) ==
    /\ Ready(p)
    /\ \E args \in IdArgs :
        LET out == GetStatusOut(resp, args)
        IN  /\ ret' = Response("get_status", args, out)
            /\ seen' = seen \cup Reported(out)
    /\ UNCHANGED <<queue, resp, pc, loc>>

\* legitify.submit_attestation_request: a payload the schema rejects is
\* answered with its violations; otherwise the id is made of the clock and a
\* random draw, createdAt is a second reading of the clock, and one line is
\* appended to the queue.
SubmitOf(p, payloads) ==
    /\ Ready(p)
    /\ \E args \in payloads :
        IF ZodViolations(args) # {}
        THEN /\ ret' = Response("submit", args,
                        [ok |-> FALSE, status |-> "needs_info",
                         errors |-> ZodViolations(args)])
             /\ UNCHANGED queue
        ELSE /\ Lines < MaxLines
             /\ \E r \in RandVals, t \in Times, createdAt \in Times :
                 LET id == RequestId(t, r)
                 IN  /\ t <= createdAt
                     /\ queue' = jsonlAppend(queue,
                            [id |-> id, status |-> "pending",
                             createdAt |-> createdAt, request |-> ZodData(args)])
                     /\ ret' = Response("submit", args,
                            [ok |-> TRUE, status |-> "pending",
                             attestation_request_id |-> id])
    /\ UNCHANGED <<resp, pc, loc, seen>>

Submit(p) == SubmitOf(p, SubmitArgs)

\* legitify.list_pending_requests
ListPending(p) ==
    /\ Ready(p)
    /\ \E args \in LimitArgs :
        ret' = Response("list_pending", args, ListPendingOut(queue, args))
    /\ UNCHANGED <<queue, resp, pc, loc, seen>>

\* legitify.get_pending_request_details
GetDetails(p) ==
    /\ Ready(p)
    /\ \E args \in IdArgs :
        ret' = Response("get_pending_details", args, DetailsOut(queue, args))
    /\ UNCHANGED <<queue, resp, pc, loc, seen>>

\* legitify.review_request, up to its write: the arguments are checked, the
\* request is looked up in the queue and a receipt already in the log is
\* returned.  The two reads are one step: the first reads only the queue and
\* the second only the receipt log, so what other processes write between
\* them can be taken to come before the first or after the second.
ReviewCheckOf(p, reviews) ==
    /\ Ready(p)
    /\ \E args \in reviews :
        LET id == IdOf(args)
            req == findPendingById(queue, id)
            existing == findLatestReceipt(resp, id)
        IN  IF id = "" \/ DecisionOf(args) \notin Decisions
            THEN /\ ret' = Response("review", args, InvalidReview)
                 /\ UNCHANGED <<pc, loc, seen>>
            ELSE IF req = Undef
            THEN /\ ret' = Response("review", args, NotFound)
                 /\ UNCHANGED <<pc, loc, seen>>
            ELSE IF existing # Undef
            THEN LET out == [ok |-> TRUE,
                             status |-> OrElse(Prop(existing[1], "decision"), "approved"),
                             attestation_request_id |-> id,
                             receipt |-> existing[1].v]
                 IN  /\ ret' = Response("review", args, out)
                     /\ seen' = seen \cup Reported(out)
                     /\ UNCHANGED <<pc, loc>>
            ELSE /\ pc' = [pc EXCEPT ![p] = "append"]
                 /\ loc' = [loc EXCEPT ![p] = [args |-> args, req |-> req[1]]]
                 /\ ret' = NoRet
                 /\ UNCHANGED seen
    /\ UNCHANGED <<queue, resp>>

ReviewCheck(p) == ReviewCheckOf(p, ReviewArgs)

\* review_request's write: the receipt is stamped with the clock, its id made
\* of a second reading of the clock and a random draw, and appended.
ReviewAppend(p) ==
    /\ ret = NoRet
    /\ pc[p] = "append"
    /\ Lines < MaxLines
    /\ \E r \in RandVals, timestamp \in Times, t \in Times :
        LET receipt == Receipt(loc[p].args, loc[p].req, timestamp, AttestationId(t, r))
            out == [ok |-> TRUE, status |-> DecisionOf(loc[p].args),
                    attestation_request_id |-> IdOf(loc[p].args),
                    receipt |-> receipt]
        IN  /\ timestamp <= t
            /\ resp' = jsonlAppend(resp, receipt)
            /\ ret' = Response("review", loc[p].args, out)
            /\ seen' = seen \cup Reported(out)
    /\ pc' = [pc EXCEPT ![p] = "idle"]
    /\ loc' = [loc EXCEPT ![p] = <<>>]
    /\ UNCHANGED queue

\* Processes run side by side: a step of any process may follow any other.
Next ==
    \/ Respond
    \/ \E p \in Procs :
        \/ GetPolicy(p)
        \/ GetStatus(p)
        \/ Submit(p)
        \/ ListPending(p)
        \/ GetDetails(p)
        \/ ReviewCheck(p)
        \/ ReviewAppend(p)

Spec == Init /\ [][Next]_vars

\* One call at a time: a process starts or continues a call only while the
\* others are between calls.
Alone(p) == \A q \in Procs \ {p} : pc[q] = "idle"

NextSeq ==
    \/ Respond
    \/ \E p \in Procs :
        \/ Alone(p) /\ GetPolicy(p)
        \/ Alone(p) /\ GetStatus(p)
        \/ Alone(p) /\ Submit(p)
        \/ Alone(p) /\ ListPending(p)
        \/ Alone(p) /\ GetDetails(p)
        \/ Alone(p) /\ ReviewCheck(p)
        \/ Alone(p) /\ ReviewAppend(p)

SeqSpec == Init /\ [][NextSeq]_vars

\* Something other than the server leaves a line in one of the files that is
\* no record: text cut short that does not parse, or JSON that is no object.
ForeignLines == {[t |-> "garbage"], [t |-> "null"], [t |-> "num"]}

ForeignWrite ==
    /\ ret = NoRet
    /\ Lines < MaxLines
    /\ \E line \in ForeignLines :
        \/ queue' = Append(queue, line) /\ UNCHANGED resp
        \/ resp' = Append(resp, line) /\ UNCHANGED queue
    /\ UNCHANGED <<pc, loc, ret, seen>>

NextForeign ==
    \/ ForeignWrite
    \/ Respond
    \/ \E p \in Procs :
        \/ Alone(p) /\ GetPolicy(p)
        \/ Alone(p) /\ GetStatus(p)
        \/ Alone(p) /\ Submit(p)
        \/ Alone(p) /\ ListPending(p)
        \/ Alone(p) /\ GetDetails(p)
        \/ Alone(p) /\ ReviewCheck(p)
        \/ Alone(p) /\ ReviewAppend(p)

\* The logs may hold lines that are no records; calls are made one at a time.
ForeignSpec == Init /\ [][NextForeign]_vars

\* Inputs the tools' input schemas admit besides those explored above: a
\* currency that is the empty string (z.string() has no min), and a reviewer
\* name and scope that are empty strings.
EmptyCurrencyRequest ==
    [title |-> "Wire transfer", summary |-> "Pay vendor", currency |-> ""]
WideSubmitArgs == SubmitArgs \cup {EmptyCurrencyRequest}
WideReviewArgs ==
    ReviewArgs
    \cup {[attestation_request_id |-> i, decision |-> "approved",
           reviewed_by |-> "", scope |-> ""] : i \in KnownIds}

NextWide ==
    \/ Respond
    \/ \E p \in Procs :
        \/ Alone(p) /\ GetPolicy(p)
        \/ Alone(p) /\ GetStatus(p)
        \/ Alone(p) /\ SubmitOf(p, WideSubmitArgs)
        \/ Alone(p) /\ ListPending(p)
        \/ Alone(p) /\ GetDetails(p)
        \/ Alone(p) /\ ReviewCheckOf(p, WideReviewArgs)
        \/ Alone(p) /\ ReviewAppend(p)

\* Calls made one at a time, with the wider inputs.
WideSpec == Init /\ [][NextWide]_vars

\* Receipts this version's review_request did not write (the status tool
\* describes requests as pending "unless manually processed"): one without a
\* decision field and one whose decision is none of the three values.
ManualReceipts(id) ==
    {[attestation_id |-> "att_manual", attestation_request_id |-> id],
     [attestation_id |-> "att_manual", attestation_request_id |-> id,
      decision |-> "escalated"]}

ManualWrite ==
    /\ ret = NoRet
    /\ Lines < MaxLines
    /\ \E id \in {UnknownId} \cup KnownIds :
        \E receipt \in ManualReceipts(id) :
            resp' = jsonlAppend(resp, receipt)
    /\ UNCHANGED <<queue, pc, loc, ret, seen>>

NextManual ==
    \/ ManualWrite
    \/ Respond
    \/ \E p \in Procs :
        \/ Alone(p) /\ GetPolicy(p)
        \/ Alone(p) /\ GetStatus(p)
        \/ Alone(p) /\ Submit(p)
        \/ Alone(p) /\ ListPending(p)
        \/ Alone(p) /\ GetDetails(p)
        \/ Alone(p) /\ ReviewCheck(p)
        \/ Alone(p) /\ ReviewAppend(p)

\* Calls made one at a time over a receipt log that may hold receipts
\* written by hand.
ManualSpec == Init /\ [][NextManual]_vars

\* ------------------------------------------------- an append in flight
\* jsonlAppend is one appendFileSync of the whole line to a file opened for
\* appending: the operating system places each write at the end of the file,
\* so the writes of two processes to one file follow one another.  A reader
\* takes no part in that: readFileSync may run while the write is under way
\* and find the line cut short, without its end and its newline.  Such a
\* line is the text of an object with its braces open, which JSON.parse
\* rejects.
PartialLine == [t |-> "garbage"]
\* The file without the line being written.
Front(file) == SubSeq(file, 1, Len(file) - 1)
QueueBusy == \E q \in Procs : pc[q] = "submit_write"
RespBusy == \E q \in Procs : pc[q] = "review_write"

\* The payloads and reviews of the calls whose writes are followed in parts.
InFlightSubmitArgs == {MinimalRequest, FullRequest}
InFlightReviewArgs ==
    {[attestation_request_id |-> i, decision |-> d] :
        i \in KnownIds, d \in {"approved", "denied"}}

\* submit_attestation_request, from its start to the first bytes of its line.
SubmitBegin(p) ==
    /\ Ready(p)
    /\ ~QueueBusy
    /\ Lines < MaxLines
    /\ \E args \in InFlightSubmitArgs, r \in RandVals, t \in Times, createdAt \in Times :
        /\ ZodViolations(args) = {}
        /\ t <= createdAt
        /\ loc' = [loc EXCEPT ![p] =
                    [args |-> args,
                     record |-> [id |-> RequestId(t, r), status |-> "pending",
                                 createdAt |-> createdAt, request |-> ZodData(args)]]]
    /\ queue' = Append(queue, PartialLine)
    /\ pc' = [pc EXCEPT ![p] = "submit_write"]
    /\ UNCHANGED <<resp, ret, seen>>

\* The write completes: the file is what jsonlAppend makes of the file as it
\* was before the write, and the handler returns.
SubmitEnd(p) ==
    /\ ret = NoRet
    /\ pc[p] = "submit_write"
    /\ queue' = jsonlAppend(Front(queue), loc[p].record)
    /\ ret' = Response("submit", loc[p].args,
                [ok |-> TRUE, status |-> "pending",
                 attestation_request_id |-> loc[p].record.id])
    /\ pc' = [pc EXCEPT ![p] = "idle"]
    /\ loc' = [loc EXCEPT ![p] = <<>>]
    /\ UNCHANGED <<resp, seen>>

\* review_request's write, up to the first bytes of the receipt's line.
ReviewWriteBegin(p) ==
    /\ ret = NoRet
    /\ pc[p] = "append"
    /\ ~RespBusy
    /\ Lines < MaxLines
    /\ \E r \in RandVals, timestamp \in Times, t \in Times :
        /\ timestamp <= t
        /\ loc' = [loc EXCEPT ![p] =
                    [args |-> loc[p].args,
                     receipt |-> Receipt(loc[p].args, loc[p].req, timestamp,
                                         AttestationId(t, r))]]
    /\ resp' = Append(resp, PartialLine)
    /\ pc' = [pc EXCEPT ![p] = "review_write"]
    /\ UNCHANGED <<queue, ret, seen>>

ReviewWriteEnd(p) ==
    /\ ret = NoRet
    /\ pc[p] = "review_write"
    /\ LET out == [ok |-> TRUE, status |-> DecisionOf(loc[p].args),
                   attestation_request_id |-> IdOf(loc[p].args),
                   receipt |-> loc[p].receipt]
       IN  /\ resp' = jsonlAppend(Front(resp), loc[p].receipt)
           /\ ret' = Response("review", loc[p].args, out)
           /\ seen' = seen \cup Reported(out)
    /\ pc' = [pc EXCEPT ![p] = "idle"]
    /\ loc' = [loc EXCEPT ![p] = <<>>]
    /\ UNCHANGED queue

NextInFlight ==
    \/ Respond
    \/ \E p \in Procs :
        \/ GetStatus(p)
        \/ ListPending(p)
        \/ GetDetails(p)
        \/ SubmitBegin(p)
        \/ SubmitEnd(p)
        \/ ReviewCheckOf(p, InFlightReviewArgs)
        \/ ReviewWriteBegin(p)
        \/ ReviewWriteEnd(p)

\* Processes side by side, a write being visible to readers before it is
\* complete.
InFlightSpec == Init /\ [][NextInFlight]_vars

\* ------------------------------------------------------------ the claims
\* The well-formed records of a log, as the data model describes them.
IsRecord(line) == line.t = "obj"
RequestsWithId(id) ==
    {i \in 1..Len(queue) : IsRecord(queue[i]) /\ "id" \in DOMAIN queue[i].v
                           /\ queue[i].v.id = id}
ReceiptsOf(file, id) ==
    {i \in 1..Len(file) : IsRecord(file[i])
                          /\ "attestation_request_id" \in DOMAIN file[i].v
                          /\ file[i].v.attestation_request_id = id}
Returned == ret.op # "none"
\* The call names no request: the id is missing or empty.
NoId(a) == "attestation_request_id" \notin DOMAIN a \/ a.attestation_request_id = ""
\* The decision argument exactly as the caller wrote it.
RawDecision(args) == IF "decision" \in DOMAIN args THEN args.decision ELSE ""

\* C1: with calls made one at a time, a review of an id that already has a
\* receipt in the log, made with any of the three decisions, returns the
\* first receipt recorded for the id with that receipt's decision as status,
\* and leaves the receipt log as it was.
C1_FirstDecisionWins ==
    [][(/\ ret'.op = "review"
        /\ RawDecision(ret'.args) \in Decisions
        /\ ReceiptsOf(resp, IdOf(ret'.args)) # {})
       => LET first == resp[Min(ReceiptsOf(resp, IdOf(ret'.args)))].v
          IN  /\ resp' = resp
              /\ ret'.out.ok
              /\ ret'.out.receipt = first
              /\ ret'.out.status = first.decision]_vars

\* A later review asking for another decision was answered with the first.
C1_Witness ==
    /\ ret.op = "review"
    /\ ret.out.ok
    /\ RawDecision(ret.args) \in Decisions
    /\ ret.out.status # RawDecision(ret.args)
    /\ Len(resp) = 1

\* C2: the receipt log never holds two receipts for the same request id,
\* also when reviews of one id overlap in different processes.
C2_AtMostOneReceiptPerRequest ==
    \A i, j \in 1..Len(resp) :
        (/\ IsRecord(resp[i]) /\ IsRecord(resp[j])
         /\ resp[i].v.attestation_request_id = resp[j].v.attestation_request_id)
        => i = j

\* C3: once a call has reported a decision with a receipt for an id, every
\* call reports that same decision and receipt for it, and none reports
\* pending.
C3_DecisionIsTerminal ==
    /\ \A a, b \in seen : a.id = b.id => a = b
    /\ (ret.op \in {"get_status", "review"} /\ ret.out.ok /\ ret.out.status = "pending")
        => \A a \in seen : a.id # ret.out.attestation_request_id

\* C4: get_status of a non-empty id answers pending, without a receipt,
\* exactly when the receipt log holds no receipt for the id; otherwise it
\* answers with the receipt appended last for the id and that receipt's
\* decision as status.
C4_DerivedStatus ==
    (ret.op = "get_status" /\ IdOf(ret.args) # "")
    => LET id == IdOf(ret.args)
           hits == ReceiptsOf(resp, id)
       IN  /\ ret.out.ok
           /\ ret.out.attestation_request_id = id
           /\ (ret.out.status = "pending") <=> (hits = {})
           /\ ("receipt" \in DOMAIN ret.out) <=> (hits # {})
           /\ hits # {} => /\ ret.out.receipt = resp[Max(hits)].v
                           /\ ret.out.status = resp[Max(hits)].v.decision

\* get_status answered with a receipt while the log held two for the id.
C4_Witness ==
    /\ ret.op = "get_status"
    /\ "receipt" \in DOMAIN ret.out
    /\ Cardinality(ReceiptsOf(resp, IdOf(ret.args))) = 2

\* C5: no two request records share an id and no two receipts share an
\* attestation_id.
C5_IdsNeverReused ==
    /\ \A i, j \in 1..Len(queue) :
        (IsRecord(queue[i]) /\ IsRecord(queue[j]) /\ queue[i].v.id = queue[j].v.id)
        => i = j
    /\ \A i, j \in 1..Len(resp) :
        (/\ IsRecord(resp[i]) /\ IsRecord(resp[j])
         /\ resp[i].v.attestation_id = resp[j].v.attestation_id)
        => i = j

\* C6: a review of an id no request record has returns not-found (ok false,
\* status needs_info) and appends to neither log; and every receipt in the
\* receipt log refers to the id of a record of the request log.
C6_ReferentialIntegrity ==
    [][/\ (ret'.op = "review" /\ RequestsWithId(IdOf(ret'.args)) = {})
          => /\ ret'.out.ok = FALSE
             /\ ret'.out.status = "needs_info"
             /\ (~NoId(ret'.args) /\ RawDecision(ret'.args) \in Decisions)
                    => ret'.out.error = "request not found in queue"
             /\ UNCHANGED <<queue, resp>>
       /\ \A i \in 1..Len(resp') :
            \E j \in 1..Len(queue') :
                queue'[j].v.id = resp'[i].v.attestation_request_id]_vars

\* A review of an unknown id was answered not-found while the queue held
\* requests and the log a receipt.
C6_Witness ==
    /\ ret.op = "review"
    /\ ret.out = NotFound
    /\ Len(queue) > 0
    /\ Len(resp) > 0

\* The limit a caller passed, clamped to [1, 100].
Clamped(l) == IF Less(l, Num(1)) THEN Num(1) ELSE IF Less(Num(100), l) THEN Num(100) ELSE l
PendingRecords ==
    {i \in 1..Len(queue) : IsRecord(queue[i]) /\ queue[i].v.status = "pending"}
SmallerOf(a, b) == IF a < b THEN a ELSE b

\* C7: list_pending returns at most clamp(limit, 1, 100) entries for every
\* numeric limit passed (0, negative and non-integer ones too), at most 25
\* when none is passed, and for a whole limit N in 1..100 exactly
\* min(N, number of pending records); the count is the number of entries.
C7_LimitBound ==
    ret.op = "list_pending"
    => /\ ~IsFault(ret.out)
       /\ ret.out.pendingCount = Len(ret.out.pending)
       /\ Len(ret.out.pending) <= 100
       /\ IF "limit" \notin DOMAIN ret.args
          THEN Len(ret.out.pending) <= 25
          ELSE LET l == ret.args.limit
               IN  /\ Len(ret.out.pending) * Clamped(l).d <= Clamped(l).n
                   /\ (l.d = 1 /\ l.n \in 1..100)
                        => Len(ret.out.pending)
                            = SmallerOf(l.n, Cardinality(PendingRecords))

\* The i-th pending record of the queue, counted from its end.
RECURSIVE NthFromEnd(_, _)
NthFromEnd(S, i) == IF i = 1 THEN Max(S) ELSE NthFromEnd(S \ {Max(S)}, i - 1)

\* C8: the entries list_pending returns are the last pending records of the
\* request log, the most recently appended first, as many as the limit
\* allows; and the record a successful submit appended is the last of the
\* log, so that the next listing shows it first.
C8_MostRecentFirst ==
    /\ ret.op = "list_pending"
        => LET entries == ret.out.pending
           IN  /\ \A i \in 1..Len(entries) :
                    LET rec == queue[NthFromEnd(PendingRecords, i)].v
                    IN  /\ entries[i].id = rec.id
                        /\ entries[i].createdAt = rec.createdAt
                        /\ entries[i].title = rec.request.title
                        /\ entries[i].summary = rec.request.summary
                        /\ entries[i].kind = rec.request.kind
               /\ ("limit" \in DOMAIN ret.args /\ ret.args.limit.d = 1
                   /\ ret.args.limit.n \in 1..100)
                    => Len(entries)
                        = SmallerOf(ret.args.limit.n, Cardinality(PendingRecords))
    /\ (ret.op = "submit" /\ ret.out.ok)
        => /\ PendingRecords # {}
           /\ queue[Max(PendingRecords)].v.id = ret.out.attestation_request_id
           /\ Max(PendingRecords) = Len(queue)

\* A listing with limit 1 returned one of two pending requests.
C8_Witness ==
    /\ ret.op = "list_pending"
    /\ ret.args = [limit |-> Num(1)]
    /\ Len(ret.out.pending) = 1
    /\ Cardinality(PendingRecords) = 2
    /\ queue[1].v.request.title # queue[2].v.request.title

\* A payload the schema of the data model rejects.
InvalidPayload(a) ==
    \/ "title" \notin DOMAIN a
    \/ "summary" \notin DOMAIN a
    \/ a.title = ""
    \/ a.summary = ""
    \/ "kind" \in DOMAIN a /\ a.kind \notin Kinds
    \/ "risk_level" \in DOMAIN a /\ a.risk_level \notin RiskLevels
    \/ "requested_action" \in DOMAIN a /\ a.requested_action \notin RequestedActions
    \/ "links" \in DOMAIN a /\ \E i \in 1..Len(a.links) : a.links[i] \notin WellFormedUrls
    \/ "spend_usd" \in DOMAIN a /\ a.spend_usd < 0
\* What a validation failure must look like, and leave behind.
RefusedUnchanged ==
    /\ ~IsFault(ret'.out)
    /\ ret'.out.ok = FALSE
    /\ ret'.out.status = "needs_info"
    /\ UNCHANGED <<queue, resp>>

\* C9 as stated: a submit whose payload violates the schema, a get_status or
\* get_pending_details without an id, and a review with an empty id or a
\* decision outside {approved, denied, needs_info} return ok false with
\* status needs_info, raise no fault and change neither log.
C9_AsStated ==
    [][(\/ ret'.op = "submit" /\ InvalidPayload(ret'.args)
        \/ ret'.op \in {"get_status", "get_pending_details"} /\ NoId(ret'.args)
        \/ ret'.op = "review"
            /\ (NoId(ret'.args) \/ RawDecision(ret'.args) \notin Decisions))
       => RefusedUnchanged]_vars

\* C9, amended: the same, the decision being outside the three values after
\* it is lower-cased.
C9_ValidationFailuresChangeNothing ==
    [][(\/ ret'.op = "submit" /\ InvalidPayload(ret'.args)
        \/ ret'.op \in {"get_status", "get_pending_details"} /\ NoId(ret'.args)
        \/ ret'.op = "review"
            /\ (NoId(ret'.args)
                \/ ToLowerCase(RawDecision(ret'.args)) \notin Decisions))
       => RefusedUnchanged]_vars

\* A submit with an empty title was refused while the queue held a request.
C9_Witness ==
    /\ ret.op = "submit"
    /\ "title" \in DOMAIN ret.args
    /\ ret.args.title = ""
    /\ ret.out.ok = FALSE
    /\ "title" \in ret.out.errors
    /\ Len(queue) > 0

\* A log without the lines that are no records.
Cleaned(file) == SelectSeq(file, IsRecord)

\* C10: whatever lines that are no records the logs hold, get_status,
\* list_pending, get_pending_details and review raise no fault and return
\* what they would return with those lines absent.
C10_CorruptRecordsSkipped ==
    /\ Returned => ~IsFault(ret.out)
    /\ ret.op = "get_status" => ret.out = GetStatusOut(Cleaned(resp), ret.args)
    /\ ret.op = "list_pending" => ret.out = ListPendingOut(Cleaned(queue), ret.args)
    /\ ret.op = "get_pending_details" => ret.out = DetailsOut(Cleaned(queue), ret.args)
    /\ (ret.op = "review" /\ ~NoId(ret.args)
        /\ ToLowerCase(RawDecision(ret.args)) \in Decisions)
        => (ret.out = NotFound <=> RequestsWithId(ret.args.attestation_request_id) = {})

\* The fields a receipt's snapshot copies from the request.
SnapshotKeys ==
    {"kind", "title", "summary", "risk_level", "links", "evidence", "spend_usd",
     "currency"}
\* The snapshot has each of those fields exactly when the request has it,
\* with the same value.
SameFields(snapshot, request) ==
    \A k \in SnapshotKeys :
        /\ (k \in DOMAIN snapshot) <=> (k \in DOMAIN request)
        /\ k \in DOMAIN request => snapshot[k] = request[k]
\* The step is a review appending a receipt.
ReviewAppended == ret'.op = "review" /\ Len(resp') = Len(resp) + 1

\* C11: the receipt a review appends embeds a snapshot whose eight fields
\* equal those of the most recent request record with the receipt's id at
\* that moment; no step changes a receipt already in the log, whatever is
\* appended to the request log afterwards; and get_status returns the
\* receipt as the log holds it.
C11_SnapshotRoundTrip ==
    [][/\ ReviewAppended
          => LET receipt == resp'[Len(resp')].v
                 hits == RequestsWithId(receipt.attestation_request_id)
             IN  /\ hits # {}
                 /\ SameFields(receipt.request, queue[Max(hits)].v.request)
       /\ \A i \in 1..Len(resp) : resp'[i] = resp[i]
       /\ (ret'.op = "get_status" /\ "receipt" \in DOMAIN ret'.out)
          => \E i \in 1..Len(resp) : ret'.out.receipt = resp[i].v]_vars

IsPrefix(s, t) == Len(s) <= Len(t) /\ \A i \in 1..Len(s) : t[i] = s[i]
\* The fields of a whole request record and of a whole receipt.
RequestKeys == {"id", "status", "createdAt", "request"}
ReceiptKeys ==
    {"ok", "attestation_id", "attestation_request_id", "reviewed_by", "timestamp",
     "scope", "decision", "policy_version", "notes", "request"}
WholeRecords(items, keys) ==
    \A i \in 1..Len(items) : items[i].t = "obj" /\ DOMAIN items[i].v = keys

C13_PendingViewsIgnoreDecisions ==
    /\ (ret.op = "get_pending_details" /\ ~NoId(ret.args))
        => LET hits == RequestsWithId(ret.args.attestation_request_id)
           IN  /\ (ret.out = NotFound) <=> (hits = {})
               /\ hits # {}
                    => /\ ret.out.ok
                       /\ ret.out.status = "pending"
                       /\ ret.out.request = queue[Max(hits)].v
    /\ (ret.op = "list_pending"
        /\ ("limit" \in DOMAIN ret.args => ret.args.limit.n > 100))
        => /\ ret.out.pendingCount = Len(queue)
           /\ \A i \in 1..Len(queue) :
                ret.out.pending[i].id = queue[Len(queue) + 1 - i].v.id

\* The details of a request were returned with status pending while the
\* receipt log held an approval of it.
C13_Witness ==
    /\ ret.op = "get_pending_details"
    /\ ret.out.ok
    /\ ret.out.status = "pending"
    /\ \E i \in ReceiptsOf(resp, ret.out.attestation_request_id) :
        resp[i].v.decision = "approved"

\* C14: when one or several request records have the id, get_pending_details
\* returns the last-appended of them, and the receipt a review appends
\* snapshots the last-appended of them (calls made one at a time).
C14_MostRecentSubmissionWins ==
    [][/\ (ret'.op = "get_pending_details" /\ ret'.out.ok)
          => LET hits == RequestsWithId(ret'.out.attestation_request_id)
             IN  /\ hits # {}
                 /\ ret'.out.request = queue[Max(hits)].v
       /\ ReviewAppended
          => LET hits == RequestsWithId(ret'.out.attestation_request_id)
                 last == queue[Max(hits)].v.request
                 snapshot == resp'[Len(resp')].v.request
             IN  /\ snapshot.title = last.title
                 /\ snapshot.summary = last.summary
                 /\ snapshot.kind = last.kind
                 /\ snapshot.links = last.links
                 /\ snapshot.evidence = last.evidence]_vars

\* A review snapshotted the second of two different requests with one id.
C14_Witness ==
    /\ ret.op = "review"
    /\ Len(resp) = 1
    /\ Len(queue) = 2
    /\ RequestsWithId(ret.out.attestation_request_id) = {1, 2}
    /\ queue[1].v.request.title # queue[2].v.request.title
    /\ resp[1].v.request.title = queue[2].v.request.title

\* C15: every step leaves each log with its former contents as a prefix.  A
\* successful submit adds exactly one record, with status pending and the id
\* returned, to the request log and leaves the receipt log alone; a refused
\* submit changes neither; a review adds at most one record to the receipt
\* log and leaves the request log alone; get_status, get_policy,
\* list_pending and get_pending_details change neither log.
C15_AppendOnlyAndFrame ==
    [][/\ IsPrefix(queue, queue')
       /\ IsPrefix(resp, resp')
       /\ (ret'.op = "submit" /\ ret'.out.ok)
          => /\ Len(queue') = Len(queue) + 1
             /\ IsRecord(queue'[Len(queue')])
             /\ queue'[Len(queue')].v.status = "pending"
             /\ queue'[Len(queue')].v.id = ret'.out.attestation_request_id
             /\ resp' = resp
       /\ (ret'.op = "submit" /\ ~ret'.out.ok) => UNCHANGED <<queue, resp>>
       /\ ret'.op = "review"
          => /\ Len(resp') <= Len(resp) + 1
             /\ queue' = queue
       /\ ret'.op \in {"get_status", "get_policy", "list_pending",
                       "get_pending_details", "none"}
          => UNCHANGED <<queue, resp>>]_vars

\* A submit added a second request to a queue while the receipt log held a
\* receipt.
C15_Witness ==
    /\ ret.op = "submit"
    /\ ret.out.ok
    /\ Len(queue) = 2
    /\ Len(resp) = 1

\* The decision field of a receipt, if it has one.
HasDecision(receipt, d) == "decision" \in DOMAIN receipt /\ receipt.decision = d

\* C16: whatever receipts the log holds, those without a decision field or
\* with a decision outside the three values included, get_status and review
\* report status approved only with a receipt whose decision is approved;
\* and the receipt a review appends has a decision among the three values,
\* the lower-cased decision the caller passed.
C16_ApprovalIsBacked ==
    [][/\ (ret'.op \in {"get_status", "review"} /\ ret'.out.ok
           /\ ret'.out.status = "approved")
          => /\ "receipt" \in DOMAIN ret'.out
             /\ HasDecision(ret'.out.receipt, "approved")
       /\ ReviewAppended
          => LET receipt == resp'[Len(resp')].v
             IN  /\ receipt.decision \in Decisions
                 /\ receipt.decision = ToLowerCase(RawDecision(ret'.args))]_vars

\* The step returns from the first review of a submitted request: the id has
\* a request record and no receipt, and the decision is one of the three.
FirstReview ==
    /\ ret'.op = "review"
    /\ ~NoId(ret'.args)
    /\ RawDecision(ret'.args) \in Decisions
    /\ RequestsWithId(ret'.args.attestation_request_id) # {}
    /\ ReceiptsOf(resp, ret'.args.attestation_request_id) = {}
\* What the lifecycle says besides the reviewer's name: a valid submit
\* returns pending with the id of the record it appended; a first review
\* with decision d returns status d and appends the receipt it returns, with
\* decision d and the request's id and a non-empty scope; and a get_status of
\* an id for which a review reported a receipt returns that status and
\* receipt.
LifecycleSteps ==
    /\ (ret'.op = "submit" /\ ZodViolations(ret'.args) = {})
        => /\ ret'.out.ok
           /\ ret'.out.status = "pending"
           /\ queue'[Len(queue')].v.id = ret'.out.attestation_request_id
           /\ queue'[Len(queue')].v.request.title = ret'.args.title
    /\ FirstReview
        => /\ ret'.out.ok
           /\ ret'.out.status = RawDecision(ret'.args)
           /\ ret'.out.receipt.decision = RawDecision(ret'.args)
           /\ ret'.out.receipt.attestation_request_id
                = ret'.args.attestation_request_id
           /\ ret'.out.receipt.scope # ""
           /\ resp' = Append(resp, Obj(ret'.out.receipt))
    /\ (ret'.op = "get_status" /\ ~NoId(ret'.args))
        => \A a \in seen :
            a.id = ret'.args.attestation_request_id
            => /\ ret'.out.status = a.status
               /\ ret'.out.receipt = a.receipt

\* C17 as stated: the lifecycle, the receipt of the first review carrying the
\* reviewed_by the caller passed, and a non-empty default when none is
\* passed.
C17_AsStated ==
    [][/\ LifecycleSteps
       /\ FirstReview
          => /\ "reviewed_by" \in DOMAIN ret'.args
                => ret'.out.receipt.reviewed_by = ret'.args.reviewed_by
             /\ ret'.out.receipt.reviewed_by # ""]_vars

\* C17, amended: the same, the receipt carrying the reviewed_by passed when
\* it is not empty, and a non-empty default when it is absent or empty.
C17_Lifecycle ==
    [][/\ LifecycleSteps
       /\ FirstReview
          => /\ ("reviewed_by" \in DOMAIN ret'.args /\ ret'.args.reviewed_by # "")
                => ret'.out.receipt.reviewed_by = ret'.args.reviewed_by
             /\ ret'.out.receipt.reviewed_by # ""]_vars

\* After a review by alice approved a request, get_status returned approved
\* with the receipt that review had returned.
C17_Witness ==
    /\ ret.op = "get_status"
    /\ ret.out.status = "approved"
    /\ ret.out.receipt.reviewed_by = "alice"
    /\ [id |-> ret.out.attestation_request_id, status |-> "approved",
        receipt |-> ret.out.receipt] \in seen
    /\ ReceiptsOf(resp, ret.out.attestation_request_id) # {}
====
